---- MODULE Spec2Model ----
(***************************************************************************)
(* Model of cvbase/det/eval.py: bbox_overlaps, _recalls, bbox_recalls,     *)
(* average_precision and eval_map.                                         *)
(*                                                                         *)
(* Floating point values are modelled exactly as pairs <<n, d>>:           *)
(*   d > 0      the rational n / d                                         *)
(*   <<0, 0>>   NaN   (0 / 0)                                              *)
(*   <<1, 0>>   +inf  (x / 0, x > 0),  <<-1, 0>>  -inf                     *)
(* Comparisons follow IEEE 754: every comparison with NaN is false.        *)
(* All box coordinates of the model are small integers, which float32      *)
(* holds exactly, so astype(np.float32) changes no value.                  *)
(***************************************************************************)
EXTENDS Integers, Sequences, FiniteSets, TLC

\* ------------------------------------------------------------------ bounds
\* most boxes in the first / second argument of a direct bbox_overlaps call
MaxN1 == 2
MaxN2 == 1
\* most images of a dataset, ground-truth boxes and proposals of an image
MaxImgs == 1
MaxGt == 2
MaxProp == 2
\* largest proposal score and largest proposal-count cutoff
MaxScore == 2
MaxNum == 2
\* eval_map inputs: most images and classes, most detections and most
\* ground-truth boxes of the whole dataset
MaxEmImgs == 2
MaxCls == 2
MaxDet == 2
MaxEmGt == 2

\* ------------------------------------------------------------ float values
NaN == <<0, 0>>
PosInf == <<1, 0>>
NegInf == <<-1, 0>>
Fin(n) == <<n, 1>>
IsNaN(a) == a = NaN

Max(a, b) == IF a >= b THEN a ELSE b
Min(a, b) == IF a <= b THEN a ELSE b

\* float division of two integer-valued floats
FDiv(n, d) ==
  IF d = 0 THEN (IF n = 0 THEN NaN ELSE IF n > 0 THEN PosInf ELSE NegInf)
  ELSE IF d < 0 THEN <<-n, -d>>
  ELSE <<n, d>>

FLt(a, b) ==
  IF IsNaN(a) \/ IsNaN(b) THEN FALSE
  ELSE IF a[2] = 0 /\ b[2] = 0 THEN a[1] < b[1]
  ELSE IF a[2] = 0 THEN a[1] < 0
  ELSE IF b[2] = 0 THEN b[1] > 0
  ELSE a[1] * b[2] < b[1] * a[2]

FEq(a, b) == ~IsNaN(a) /\ ~IsNaN(b) /\ ~FLt(a, b) /\ ~FLt(b, a)
FLe(a, b) == FLt(a, b) \/ FEq(a, b)
FGt(a, b) == FLt(b, a)
FGe(a, b) == FLe(b, a)

\* ------------------------------------------------------------- matrices
\* an ndarray of shape (nr, nc): v is the sequence of its rows
Mat(nr, nc, v) == [nr |-> nr, nc |-> nc, v |-> v]
Zeros(nr, nc) == Mat(nr, nc, [i \in 1..nr |-> [j \in 1..nc |-> Fin(0)]])
Transpose(m) ==
  Mat(m.nc, m.nr, [j \in 1..m.nc |-> [i \in 1..m.nr |-> m.v[i][j]]])

\* ------------------------------------------------------------ bbox_overlaps
Area(b) == (b[3] - b[1] + 1) * (b[4] - b[2] + 1)

\* one entry of line 39: row box a (bboxes1[i]) against column box b
Overlap(a, b) ==
  LET x_start == Max(a[1], b[1])
      y_start == Max(a[2], b[2])
      x_end == Min(a[3], b[3])
      y_end == Min(a[4], b[4])
  IN  Max(x_end - x_start + 1, 0) * Max(y_end - y_start + 1, 0)

UnionArea(a, b) == Area(a) + Area(b) - Overlap(a, b)

PairIoU(a, b) == FDiv(Overlap(a, b), UnionArea(a, b))

\* the exchanged result returned without line 41's transposition
OverlapsNotTransposed(b1, b2) ==
  LET rows == Len(b1)
      cols == Len(b2)
  IN  IF rows * cols = 0 THEN Zeros(rows, cols)
      ELSE LET exchange == rows > cols
               c1 == IF exchange THEN b2 ELSE b1
               c2 == IF exchange THEN b1 ELSE b2
           IN  Mat(Len(c1), Len(c2),
                   [i \in 1..Len(c1) |->
                      [j \in 1..Len(c2) |-> PairIoU(c1[i], c2[j])]])

bbox_overlaps(b1, b2) ==
  LET rows == Len(b1)
      cols == Len(b2)
  IN  IF rows * cols = 0 THEN Zeros(rows, cols)
      ELSE LET exchange == rows > cols
               c1 == IF exchange THEN b2 ELSE b1
               c2 == IF exchange THEN b1 ELSE b2
               ious == Mat(Len(c1), Len(c2),
                           [i \in 1..Len(c1) |->
                              [j \in 1..Len(c2) |-> PairIoU(c1[i], c2[j])]])
           IN  IF exchange THEN Transpose(ious) ELSE ious

\* ------------------------------------------------------------------ inputs
\* boxes <<x1, y1, x2, y2>>; x2 < x1 or y2 < y1 is a degenerate box, which
\* the code does not reject
X1s == 0..1
X2s == (-1)..1
Y2s == 0..1
Boxes2D == {<<x1, 0, x2, y2>> : x1 \in X1s, x2 \in X2s, y2 \in Y2s}

SeqsUpTo(S, n) == UNION {[1..k -> S] : k \in 0..n}

\* --------------------------------------------------------------- _recalls
Take(s, n) == SubSeq(s, 1, Min(n, Len(s)))

\* m[:, :n] for n >= 0
Cols(m, n) == Mat(m.nr, Min(n, m.nc), [r \in 1..m.nr |-> Take(m.v[r], n)])

\* ndarray.argmax of a non-empty vector: the first NaN if there is one,
\* else the first index holding the maximum
ArgMax(s) ==
  IF \E a \in 1..Len(s) : IsNaN(s[a])
  THEN CHOOSE a \in 1..Len(s) : IsNaN(s[a]) /\ \A b \in 1..(a - 1) : ~IsNaN(s[b])
  ELSE CHOOSE a \in 1..Len(s) :
         /\ \A b \in 1..Len(s) : FLe(s[b], s[a])
         /\ \A b \in 1..(a - 1) : FLt(s[b], s[a])

\* the loop body without line 63: the matched column stays available
GreedyStepKeepsColumn(m) ==
  LET gt_max_overlaps == [r \in 1..m.nr |-> ArgMax(m.v[r])]
      max_ious == [r \in 1..m.nr |-> m.v[r][gt_max_overlaps[r]]]
      gt_idx == ArgMax(max_ious)
      box_idx == gt_max_overlaps[gt_idx]
  IN  [val |-> max_ious[gt_idx],
       gt_idx |-> gt_idx,
       box_idx |-> box_idx,
       ious |-> Mat(m.nr, m.nc,
                    [r \in 1..m.nr |-> [c \in 1..m.nc |->
                       IF r = gt_idx THEN Fin(-1) ELSE m.v[r][c]]])]

\* one pass of the loop body, lines 57-63, on a matrix with nr > 0, nc > 0
GreedyStep(m) ==
  LET gt_max_overlaps == [r \in 1..m.nr |-> ArgMax(m.v[r])]
      max_ious == [r \in 1..m.nr |-> m.v[r][gt_max_overlaps[r]]]
      gt_idx == ArgMax(max_ious)
      box_idx == gt_max_overlaps[gt_idx]
  IN  [val |-> max_ious[gt_idx],
       gt_idx |-> gt_idx,
       box_idx |-> box_idx,
       ious |-> Mat(m.nr, m.nc,
                    [r \in 1..m.nr |-> [c \in 1..m.nc |->
                       IF r = gt_idx \/ c = box_idx THEN Fin(-1) ELSE m.v[r][c]]])]

\* the loop of lines 56-63 run n times from matrix m: the values of gt_ious
RECURSIVE GreedyRun(_, _)
GreedyRun(m, n) ==
  IF n = 0 THEN <<>>
  ELSE LET s == GreedyStep(m) IN <<s.val>> \o GreedyRun(s.ious, n - 1)

RECURSIVE Concat(_)
Concat(ss) == IF Len(ss) = 0 THEN <<>> ELSE Head(ss) \o Concat(Tail(ss))

\* np.sort order: ascending, NaN last
SortLe(a, b) == IsNaN(b) \/ (~IsNaN(a) /\ FLe(a, b))

RECURSIVE InsertSorted(_, _)
InsertSorted(x, s) ==
  IF Len(s) = 0 THEN <<x>>
  ELSE IF SortLe(x, Head(s)) THEN <<x>> \o s
  ELSE <<Head(s)>> \o InsertSorted(x, Tail(s))

RECURSIVE NpSort(_)
NpSort(s) == IF Len(s) = 0 THEN <<>> ELSE InsertSorted(Head(s), NpSort(Tail(s)))

Reverse(s) == [a \in 1..Len(s) |-> s[Len(s) + 1 - a]]

CountGe(s, thr) == Cardinality({a \in 1..Len(s) : FGe(s[a], thr)})

\* lines 67-70 for one row of _ious
TableRow(row, thrs, total_gt_num) ==
  LET sorted == Reverse(NpSort(row))
  IN  [t \in 1..Len(thrs) |-> FDiv(CountGe(sorted, thrs[t]), total_gt_num)]

RECURSIVE SumSeq(_)
SumSeq(s) == IF Len(s) = 0 THEN 0 ELSE Head(s) + SumSeq(Tail(s))

\* line 48
TotalGt(all) == SumSeq([a \in 1..Len(all) |-> all[a].nr])

\* ------------------------------------------------------------ bbox_recalls
BoxOf(row) == <<row[1], row[2], row[3], row[4]>>
HasScores(p) == Len(p) > 0 /\ Len(p[1]) = 5

Perms(n) == {p \in [1..n -> 1..n] : \A a, b \in 1..n : p[a] = p[b] => a = b}

\* np.argsort (default kind, not stable): any index order that sorts the
\* scores ascending; the order among equal scores depends on the build
ArgSorts(scores) ==
  {p \in Perms(Len(scores)) :
     \A a \in 1..(Len(scores) - 1) : scores[p[a]] <= scores[p[a + 1]]}

\* lines 121-129 with prop_num taken from the cutoff `last`
BuildAllIous(g, p, last) ==
  [a \in 1..Len(g) |->
     IF Len(g[a]) = 0 THEN Zeros(0, Len(p[a]))
     ELSE bbox_overlaps(g[a], [c \in 1..Min(Len(p[a]), last) |-> BoxOf(p[a][c])])]


\* ------------------------------------------------------ average_precision
RECURSIVE GCD(_, _)
GCD(a, b) == IF b = 0 THEN a ELSE GCD(b, a % b)

Abs(n) == IF n < 0 THEN -n ELSE n

\* a finite value in lowest terms; NaN and the infinities as they are
RNorm(a) ==
  IF a[2] = 0 THEN a
  ELSE LET g == GCD(Abs(a[1]), a[2]) IN <<a[1] \div g, a[2] \div g>>

RAdd(a, b) == RNorm(<<a[1] * b[2] + b[1] * a[2], a[2] * b[2]>>)
RSub(a, b) == RNorm(<<a[1] * b[2] - b[1] * a[2], a[2] * b[2]>>)
RMul(a, b) == RNorm(<<a[1] * b[1], a[2] * b[2]>>)
RDiv(a, b) == RNorm(FDiv(a[1] * b[2], a[2] * b[1]))

\* np.maximum of two values that are not NaN
FMaxv(a, b) == IF FLt(a, b) THEN b ELSE a

\* np.finfo(np.float32).eps = 2^-23
Eps32 == <<1, 8388608>>

\* lines 220-221: the running maximum from the right
RECURSIVE Envelope(_)
Envelope(s) ==
  IF Len(s) <= 1 THEN s
  ELSE LET rest == Envelope(Tail(s))
       IN  <<FMaxv(Head(s), Head(rest))>> \o rest

RECURSIVE RSum(_)
RSum(s) == IF Len(s) = 0 THEN Fin(0) ELSE RAdd(Head(s), RSum(Tail(s)))

average_precision(recall, precision) ==
  LET mrec == <<Fin(0)>> \o recall \o <<Fin(1)>>
      mpre == Envelope(<<Fin(0)>> \o precision \o <<Fin(0)>>)
  IN  RSum([a \in 1..(Len(mrec) - 1) |->
              IF FEq(mrec[a + 1], mrec[a]) THEN Fin(0)
              ELSE RMul(RSub(mrec[a + 1], mrec[a]), mpre[a + 1])])

\* ---------------------------------------------------------------- eval_map
\* bbox[label == c, :]
RECURSIVE BoxesOfClass(_, _, _)
BoxesOfClass(bbox, label, c) ==
  IF Len(bbox) = 0 THEN <<>>
  ELSE (IF Head(label) = c THEN <<Head(bbox)>> ELSE <<>>)
         \o BoxesOfClass(Tail(bbox), Tail(label), c)

\* np.cumsum
CumSum(s) == [a \in 1..Len(s) |-> SumSeq(SubSeq(s, 1, a))]

\* line 273 without the test of the covered flag
MatchOfIgnoresCovered(d, g, cov, thr) ==
  LET row == bbox_overlaps(<<BoxOf(d)>>, g).v[1]
      am == ArgMax(row)
  IN  IF FGt(row[am], thr) THEN am ELSE 0

\* lines 272-273 for detection row d against the boxes g of its image:
\* 0 when the detection is not a true positive, else the index it consumes
MatchOf(d, g, cov, thr) ==
  LET row == bbox_overlaps(<<BoxOf(d)>>, g).v[1]
      am == ArgMax(row)
  IN  IF FGt(row[am], thr) /\ cov[am] = 0 THEN am ELSE 0

\* lines 278-290
ClassResult(tps, fps, gt_num) ==
  LET ctp == CumSum(tps)
      cfp == CumSum(fps)
      recall == [a \in 1..Len(tps) |->
                   RDiv(Fin(ctp[a]), FMaxv(Fin(gt_num), Eps32))]
      precision == [a \in 1..Len(tps) |->
                      RDiv(Fin(ctp[a]), FMaxv(Fin(ctp[a] + cfp[a]), Eps32))]
  IN  [gt_num |-> gt_num, det_num |-> Len(tps), recall |-> recall,
       precision |-> precision, ap |-> average_precision(recall, precision)]

\* lines 291-295: np.array(aps).mean(), NaN for an empty aps
MeanAp(results) ==
  LET aps == SelectSeq(results, LAMBDA r : r.gt_num > 0)
  IN  IF Len(aps) = 0 THEN NaN
      ELSE RDiv(RSum([a \in 1..Len(aps) |-> aps[a].ap]), Fin(Len(aps)))

\* ----------------------------------------------------------------- state
VARIABLES pc,
          bboxes1, bboxes2, ret,
          gts, proposals, proposals_arg, proposal_nums, iou_thrs,
          sort_idx, all_ious, k, i, j, ious, gt_ious, matches, tmp_ious,
          acc_ious, recalls,
          det_results, gt_bboxes, gt_labels, iou_thr,
          dets, img_idxs, cls_gts, covered, tp, fp, eval_results, mean_ap

ovVars == <<bboxes1, bboxes2, ret>>
\* i and j are the loop variables of the function that is running
brRest == <<gts, proposals, proposals_arg, proposal_nums, iou_thrs,
            sort_idx, all_ious, k, ious, gt_ious, matches, tmp_ious, acc_ious,
            recalls>>
brVars == <<brRest, i, j>>
emInputs == <<det_results, gt_bboxes, gt_labels, iou_thr>>
emVars == <<emInputs, dets, img_idxs, cls_gts, covered, tp, fp, eval_results,
            mean_ap>>
vars == <<pc, ovVars, brVars, emVars>>

ovIdle == bboxes1 = <<>> /\ bboxes2 = <<>> /\ ret = Zeros(0, 0)
brLocalsInit ==
  /\ sort_idx = <<>> /\ all_ious = <<>> /\ k = 0 /\ i = 0 /\ j = 0
  /\ ious = Zeros(0, 0) /\ gt_ious = <<>> /\ matches = <<>>
  /\ tmp_ious = <<>>
  /\ acc_ious = <<>> /\ recalls = <<>>
brIdle ==
  /\ gts = <<>> /\ proposals = <<>> /\ proposals_arg = <<>>
  /\ proposal_nums = <<>> /\ iou_thrs = <<>>
  /\ brLocalsInit
emLocalsInit ==
  /\ dets = <<>> /\ img_idxs = <<>> /\ cls_gts = <<>> /\ covered = <<>>
  /\ tp = <<>> /\ fp = <<>> /\ eval_results = <<>> /\ mean_ap = Fin(0)
emIdle ==
  /\ det_results = <<>> /\ gt_bboxes = <<>> /\ gt_labels = <<>>
  /\ iou_thr = Fin(0)
  /\ emLocalsInit


\* ------------------------------------------------- a call of bbox_overlaps
InitOverlaps ==
  /\ pc = "ov_call"
  /\ bboxes1 \in SeqsUpTo(Boxes2D, MaxN1)
  /\ bboxes2 \in SeqsUpTo(Boxes2D, MaxN2)
  /\ ret = Zeros(0, 0)
  /\ brIdle
  /\ emIdle

CallOverlaps ==
  /\ pc = "ov_call"
  /\ ret' = bbox_overlaps(bboxes1, bboxes2)
  /\ pc' = "ov_done"
  /\ UNCHANGED <<bboxes1, bboxes2, brVars, emVars>>

NextOverlaps == CallOverlaps

SpecOverlaps == InitOverlaps /\ [][NextOverlaps]_vars

\* --------------------------------------------------- a call of bbox_recalls
\* boxes of height 1; ground truth is drawn from the valid ones, proposals
\* from all of them
DataBoxes == {b \in Boxes2D : b[4] = 0}
GtBoxes == {b \in DataBoxes : b[3] >= b[1]}
\* rows of a (k, 5) array: a box and its score
ScoredRows == {<<b[1], b[2], b[3], b[4], s>> : b \in DataBoxes, s \in 1..MaxScore}
\* the proposals of one image: a (k, 5) array or a (k, 4) array
PropArrays == SeqsUpTo(ScoredRows, MaxProp) \cup SeqsUpTo(DataBoxes, MaxProp)
\* proposal_nums after set_recall_param: non-empty lists without repetition
NumLists == {n \in SeqsUpTo(1..MaxNum, 2) :
               Len(n) > 0 /\ \A a, b \in 1..Len(n) : n[a] = n[b] => a = b}
Half == <<1, 2>>
ThrLists == {<<Fin(0), Half, Fin(1)>>, <<Half>>}

InitRecalls ==
  /\ pc = "br_call"
  /\ ovIdle
  /\ gts \in SeqsUpTo(SeqsUpTo(GtBoxes, MaxGt), MaxImgs)
  /\ proposals \in SeqsUpTo(PropArrays, MaxImgs)
  /\ proposals_arg = proposals
  /\ proposal_nums \in NumLists
  /\ iou_thrs \in ThrLists
  /\ brLocalsInit
  /\ emIdle

brInputs == <<gts, proposals_arg, proposal_nums, iou_thrs>>

\* lines 110-111, the assertion fails
AssertFail ==
  /\ pc = "br_call"
  /\ Len(gts) # Len(proposals)
  /\ pc' = "assertion_error"
  /\ UNCHANGED <<ovVars, brVars, emVars>>

\* lines 110-113
AssertPass ==
  /\ pc = "br_call"
  /\ Len(gts) = Len(proposals)
  /\ pc' = "br_sort"
  /\ i' = 1
  /\ UNCHANGED <<ovVars, emVars, brInputs, matches, proposals, sort_idx, all_ious, k, j, ious,
                 gt_ious, tmp_ious, acc_ious, recalls>>

\* lines 115-119, one image whose proposals carry scores
SortImage ==
  /\ pc = "br_sort"
  /\ i <= Len(gts)
  /\ HasScores(proposals[i])
  /\ \E p \in ArgSorts([a \in 1..Len(proposals[i]) |-> proposals[i][a][5]]) :
       /\ sort_idx' = Append(sort_idx, Reverse(p))
       /\ proposals' = [proposals EXCEPT
                          ![i] = [a \in 1..Len(p) |-> proposals[i][Reverse(p)[a]]]]
  /\ i' = i + 1
  /\ UNCHANGED <<pc, ovVars, emVars, brInputs, matches, all_ious, k, j, ious, gt_ious, tmp_ious,
                 acc_ious, recalls>>

\* lines 115-116, one image without scored proposals
SkipImage ==
  /\ pc = "br_sort"
  /\ i <= Len(gts)
  /\ ~HasScores(proposals[i])
  /\ sort_idx' = Append(sort_idx, <<>>)
  /\ i' = i + 1
  /\ UNCHANGED <<pc, ovVars, emVars, brInputs, matches, proposals, all_ious, k, j, ious, gt_ious,
                 tmp_ious, acc_ious, recalls>>

\* lines 121-130 and 47-50: the IoU matrices, then _recalls is entered
BuildIous ==
  /\ pc = "br_sort"
  /\ i > Len(gts)
  /\ all_ious' = BuildAllIous(gts, proposals, proposal_nums[Len(proposal_nums)])
  /\ acc_ious' = <<>>
  /\ k' = 1
  /\ pc' = "rc_cutoff"
  /\ UNCHANGED <<ovVars, emVars, brInputs, matches, proposals, sort_idx, i, j, ious, gt_ious,
                 tmp_ious, recalls>>

\* lines 51-52
CutoffBegin ==
  /\ pc = "rc_cutoff"
  /\ k <= Len(proposal_nums)
  /\ tmp_ious' = <<>>
  /\ i' = 1
  /\ pc' = "rc_image"
  /\ UNCHANGED <<ovVars, emVars, brInputs, matches, proposals, sort_idx, all_ious, k, j, ious,
                 gt_ious, acc_ious, recalls>>

\* lines 53-55
ImageBegin ==
  /\ pc = "rc_image"
  /\ i <= Len(all_ious)
  /\ ious' = Cols(all_ious[i], proposal_nums[k])
  /\ gt_ious' = [r \in 1..all_ious[i].nr |-> Fin(0)]
  /\ matches' = <<>>
  /\ j' = 1
  /\ pc' = "rc_iter"
  /\ UNCHANGED <<ovVars, emVars, brInputs, proposals, sort_idx, all_ious, k, i,
                 tmp_ious, acc_ious, recalls>>

\* lines 56-63, one iteration
GreedyIter ==
  /\ pc = "rc_iter"
  /\ j <= ious.nr
  /\ ious.nc > 0
  /\ LET s == GreedyStep(ious)
     IN  /\ gt_ious' = [gt_ious EXCEPT ![j] = s.val]
         /\ ious' = s.ious
         /\ matches' = Append(matches, <<s.gt_idx, s.box_idx>>)
  /\ j' = j + 1
  /\ UNCHANGED <<pc, ovVars, emVars, brInputs, proposals, sort_idx, all_ious, k, i,
                 tmp_ious, acc_ious, recalls>>

\* line 57 on a matrix without columns: argmax of an empty sequence raises
GreedyRaise ==
  /\ pc = "rc_iter"
  /\ j <= ious.nr
  /\ ious.nc = 0
  /\ pc' = "value_error"
  /\ UNCHANGED <<ovVars, brVars, emVars>>

\* line 64
ImageEnd ==
  /\ pc = "rc_iter"
  /\ j > ious.nr
  /\ tmp_ious' = tmp_ious \o gt_ious
  /\ i' = i + 1
  /\ pc' = "rc_image"
  /\ UNCHANGED <<ovVars, emVars, brInputs, matches, proposals, sort_idx, all_ious, k, j, ious,
                 gt_ious, acc_ious, recalls>>

\* line 65
CutoffEnd ==
  /\ pc = "rc_image"
  /\ i > Len(all_ious)
  /\ acc_ious' = Append(acc_ious, tmp_ious)
  /\ k' = k + 1
  /\ pc' = "rc_cutoff"
  /\ UNCHANGED <<ovVars, emVars, brInputs, matches, proposals, sort_idx, all_ious, i, j, ious,
                 gt_ious, tmp_ious, recalls>>

\* lines 67-72 and 131-133
RecallsReturn ==
  /\ pc = "rc_cutoff"
  /\ k > Len(proposal_nums)
  /\ recalls' = [r \in 1..Len(proposal_nums) |->
                   TableRow(acc_ious[r], iou_thrs, TotalGt(all_ious))]
  /\ pc' = "br_done"
  /\ UNCHANGED <<ovVars, emVars, brInputs, matches, proposals, sort_idx, all_ious, k, i, j, ious,
                 gt_ious, tmp_ious, acc_ious>>

NextRecalls ==
  \/ AssertFail \/ AssertPass \/ SortImage \/ SkipImage \/ BuildIous
  \/ CutoffBegin \/ ImageBegin \/ GreedyIter \/ GreedyRaise \/ ImageEnd
  \/ CutoffEnd \/ RecallsReturn

SpecRecalls == InitRecalls /\ [][NextRecalls]_vars

\* ------------------------------------------------------ a call of eval_map
TotalLen(ss) == SumSeq([a \in 1..Len(ss) |-> Len(ss[a])])

\* the entries of list l placed at image m (and class c), in order
RECURSIVE PlacedAt(_, _, _)
PlacedAt(l, m, c) ==
  IF Len(l) = 0 THEN <<>>
  ELSE (IF Head(l)[2] = m /\ Head(l)[3] = c THEN <<Head(l)[1]>> ELSE <<>>)
         \o PlacedAt(Tail(l), m, c)

\* every dataset of up to MaxEmImgs images and MaxCls classes holding up to
\* MaxDet detections and MaxEmGt ground-truth boxes
InitEvalMap ==
  /\ pc = "em_call"
  /\ ovIdle
  /\ brIdle
  /\ \E nimg \in 0..MaxEmImgs : \E ncls \in 1..MaxCls :
       /\ \E d \in SeqsUpTo(ScoredRows \X (1..nimg) \X (1..ncls), MaxDet) :
            det_results = [m \in 1..nimg |-> [c \in 1..ncls |-> PlacedAt(d, m, c)]]
       /\ \E g \in SeqsUpTo((GtBoxes \X (1..ncls)) \X (1..nimg) \X {0}, MaxEmGt) :
            /\ gt_bboxes = [m \in 1..nimg |->
                              [x \in 1..Len(PlacedAt(g, m, 0)) |-> PlacedAt(g, m, 0)[x][1]]]
            /\ gt_labels = [m \in 1..nimg |->
                              [x \in 1..Len(PlacedAt(g, m, 0)) |-> PlacedAt(g, m, 0)[x][2]]]
  /\ iou_thr = Half
  /\ emLocalsInit

\* line 244 on an empty det_results: det_results[0] raises
EvalMapRaise ==
  /\ pc = "em_call"
  /\ Len(det_results) = 0
  /\ pc' = "index_error"
  /\ UNCHANGED <<ovVars, brVars, emVars>>

\* lines 243-244
EvalMapEnter ==
  /\ pc = "em_call"
  /\ Len(det_results) > 0
  /\ i' = 1
  /\ pc' = "em_class"
  /\ UNCHANGED <<ovVars, brRest, j, emVars>>

\* lines 245-265: the detections of class i over all images, ranked
ClassBegin ==
  /\ pc = "em_class"
  /\ i <= Len(det_results[1])
  /\ LET all == Concat([m \in 1..Len(det_results) |-> det_results[m][i]])
         idxs == Concat([m \in 1..Len(det_results) |->
                           [x \in 1..Len(det_results[m][i]) |-> m]])
         cgts == [m \in 1..Len(gt_bboxes) |->
                    BoxesOfClass(gt_bboxes[m], gt_labels[m], i)]
     IN  /\ \E p \in ArgSorts([a \in 1..Len(all) |-> all[a][5]]) :
              /\ dets' = [a \in 1..Len(all) |-> all[Reverse(p)[a]]]
              /\ img_idxs' = [a \in 1..Len(all) |-> idxs[Reverse(p)[a]]]
         /\ cls_gts' = cgts
         /\ covered' = [m \in 1..Len(cgts) |-> [x \in 1..Len(cgts[m]) |-> 0]]
         /\ tp' = [a \in 1..Len(all) |-> 0]
         /\ fp' = [a \in 1..Len(all) |-> 0]
  /\ j' = 1
  /\ pc' = "em_det"
  /\ UNCHANGED <<ovVars, brRest, i, emInputs, eval_results, mean_ap>>

\* lines 268-271: the image of detection j has no box of the class
DetNoGt ==
  /\ pc = "em_det"
  /\ j <= Len(dets)
  /\ Len(cls_gts[img_idxs[j]]) = 0
  /\ fp' = [fp EXCEPT ![j] = 1]
  /\ j' = j + 1
  /\ UNCHANGED <<pc, ovVars, brRest, i, emInputs, dets, img_idxs, cls_gts,
                 covered, tp, eval_results, mean_ap>>

\* lines 272-275
DetTruePositive ==
  /\ pc = "em_det"
  /\ j <= Len(dets)
  /\ Len(cls_gts[img_idxs[j]]) > 0
  /\ LET m == MatchOf(dets[j], cls_gts[img_idxs[j]], covered[img_idxs[j]], iou_thr)
     IN  /\ m # 0
         /\ covered' = [covered EXCEPT ![img_idxs[j]][m] = 1]
  /\ tp' = [tp EXCEPT ![j] = 1]
  /\ j' = j + 1
  /\ UNCHANGED <<pc, ovVars, brRest, i, emInputs, dets, img_idxs, cls_gts, fp,
                 eval_results, mean_ap>>

\* lines 272-273 and 276-277
DetFalsePositive ==
  /\ pc = "em_det"
  /\ j <= Len(dets)
  /\ Len(cls_gts[img_idxs[j]]) > 0
  /\ MatchOf(dets[j], cls_gts[img_idxs[j]], covered[img_idxs[j]], iou_thr) = 0
  /\ fp' = [fp EXCEPT ![j] = 1]
  /\ j' = j + 1
  /\ UNCHANGED <<pc, ovVars, brRest, i, emInputs, dets, img_idxs, cls_gts,
                 covered, tp, eval_results, mean_ap>>

\* lines 278-290
ClassEnd ==
  /\ pc = "em_det"
  /\ j > Len(dets)
  /\ eval_results' = Append(eval_results, ClassResult(tp, fp, TotalLen(cls_gts)))
  /\ i' = i + 1
  /\ pc' = "em_class"
  /\ UNCHANGED <<ovVars, brRest, j, emInputs, dets, img_idxs, cls_gts, covered,
                 tp, fp, mean_ap>>

\* lines 291-298
EvalMapReturn ==
  /\ pc = "em_class"
  /\ i > Len(det_results[1])
  /\ mean_ap' = MeanAp(eval_results)
  /\ pc' = "em_done"
  /\ UNCHANGED <<ovVars, brVars, emInputs, dets, img_idxs, cls_gts, covered,
                 tp, fp, eval_results>>

NextEvalMap ==
  \/ EvalMapRaise \/ EvalMapEnter \/ ClassBegin \/ DetNoGt \/ DetTruePositive
  \/ DetFalsePositive \/ ClassEnd \/ EvalMapReturn

SpecEvalMap == InitEvalMap /\ [][NextEvalMap]_vars

\* ============================================================= properties
InUnit(a) == FLe(Fin(0), a) /\ FLe(a, Fin(1))

\* the entries of the returned matrix are defined for the pair (r, c)
OvPairs == {rc \in (1..Len(bboxes1)) \X (1..Len(bboxes2)) : TRUE}

\* C3: every entry of the matrix returned by bbox_overlaps is a number in
\* [0, 1], and is 0 whenever the union area of its pair is not positive
\* (degenerate boxes included).
C3_UnitRange ==
  pc = "ov_done" =>
    \A rc \in OvPairs :
      /\ InUnit(ret.v[rc[1]][rc[2]])
      /\ UnionArea(bboxes1[rc[1]], bboxes2[rc[2]]) <= 0
           => FEq(ret.v[rc[1]][rc[2]], Fin(0))

\* the same float in both places: equal numbers, or NaN in both (the entry
\* of a pair with zero union, see C3)
SameFloat(a, b) == (IsNaN(a) /\ IsNaN(b)) \/ FEq(a, b)

\* C4: bbox_overlaps(A, B) has shape n x k and its entry (r, c) is the entry
\* (c, r) of bbox_overlaps(B, A), with or without the argument exchange.
C4_TransposeSymmetric ==
  pc = "ov_done" =>
    LET back == bbox_overlaps(bboxes2, bboxes1)
    IN  /\ ret.nr = Len(bboxes1) /\ ret.nc = Len(bboxes2)
        /\ Len(ret.v) = ret.nr
        /\ \A rc \in OvPairs :
             /\ Len(ret.v[rc[1]]) = ret.nc
             /\ SameFloat(ret.v[rc[1]][rc[2]], back.v[rc[2]][rc[1]])

\* both branches are compared: a call that exchanges its arguments against
\* one that does not, on boxes that overlap in part
C4_Witness ==
  /\ pc = "ov_done"
  /\ Len(bboxes1) > Len(bboxes2)
  /\ \E rc \in OvPairs :
       /\ FLt(Fin(0), ret.v[rc[1]][rc[2]])
       /\ FLt(ret.v[rc[1]][rc[2]], Fin(1))

\* two table entries compare a <= b; two identical entries (also two NaN
\* entries of a dataset without ground truth) are taken as ordered
LeOrSame(a, b) == a = b \/ FLe(a, b)

\* C1: the table returned by bbox_recalls is monotone: non-decreasing along
\* increasing proposal-count cutoff in every threshold column, and
\* non-increasing along increasing IoU threshold in every cutoff row.
C1_Monotone ==
  pc = "br_done" =>
    /\ \A r1, r2 \in 1..Len(proposal_nums) : \A t \in 1..Len(iou_thrs) :
         proposal_nums[r1] <= proposal_nums[r2]
           => LeOrSame(recalls[r1][t], recalls[r2][t])
    /\ \A r \in 1..Len(proposal_nums) : \A t1, t2 \in 1..Len(iou_thrs) :
         FLe(iou_thrs[t1], iou_thrs[t2])
           => LeOrSame(recalls[r][t2], recalls[r][t1])

\* C6: the greedy matching assigns every ground-truth box of the image one
\* achieved IoU, a box for which no unconsumed proposal is left gets achieved
\* IoU 0, and no error is raised.
C6_UnmatchedGetZero ==
  /\ pc # "value_error"
  /\ pc = "rc_iter" =>
       /\ Len(gt_ious) = ious.nr
       /\ \A a \in 1..(j - 1) : a > ious.nc => FEq(gt_ious[a], Fin(0))

\* the row bbox_recalls returns when called with proposal_nums = [n] alone
RowAlone(n) ==
  LET all == BuildAllIous(gts, proposals, n)
  IN  TableRow(Concat([a \in 1..Len(all) |-> GreedyRun(Cols(all[a], n), all[a].nr)]),
               iou_thrs, TotalGt(all))

\* C7: the recall row of every cutoff N of the list, in whatever order the
\* cutoffs are listed, is the row a call with proposal_nums = [N] alone
\* returns (the row of the top min(N, number of proposals) proposals).
C7_RowOfCutoff ==
  pc = "br_done" =>
    \A r \in 1..Len(proposal_nums) : recalls[r] = RowAlone(proposal_nums[r])

\* rows ordered by descending score, equal scores in the order given
RECURSIVE InsertByScore(_, _)
InsertByScore(x, s) ==
  IF Len(s) = 0 THEN <<x>>
  ELSE IF x[5] > Head(s)[5] THEN <<x>> \o s
  ELSE <<Head(s)>> \o InsertByScore(x, Tail(s))

RECURSIVE StableDescending(_)
StableDescending(s) ==
  IF Len(s) = 0 THEN <<>>
  ELSE InsertByScore(s[Len(s)], StableDescending(SubSeq(s, 1, Len(s) - 1)))

\* C8: scored proposals are ordered by descending score, and proposals with
\* equal scores keep the relative order in which they were given.
C8_StableDescending ==
  \A a \in 1..Len(sort_idx) :
    HasScores(proposals_arg[a]) => proposals[a] = StableDescending(proposals_arg[a])

\* C9: a call of bbox_recalls leaves the caller's collections unchanged, and
\* a call with differing image counts fails before anything is computed.
C9_InputsUnchanged ==
  /\ proposals = proposals_arg
  /\ pc = "assertion_error" => brLocalsInit

\* the matrix the greedy loop of the current image started from
StartIous == Cols(all_ious[i], proposal_nums[k])

\* the order of ndarray.max and argmax: NaN counts as the greatest value
NpLe(a, b) == IsNaN(b) \/ FLe(a, b)

\* C10: while an unconsumed row and an unconsumed column remain, iteration a
\* records the maximum IoU over all pairs of an unconsumed row and an
\* unconsumed column and consumes exactly that row and column: no row and no
\* column is matched twice and the recorded IoUs are non-increasing.
C10_GreedyMaxFirst ==
  pc = "rc_iter" =>
    /\ \A a \in 1..(j - 1) :
         a <= Min(ious.nr, ious.nc) =>
           /\ gt_ious[a] = StartIous.v[matches[a][1]][matches[a][2]]
           /\ \A b \in 1..(a - 1) :
                /\ matches[b][1] # matches[a][1]
                /\ matches[b][2] # matches[a][2]
                /\ NpLe(gt_ious[a], gt_ious[b])
           /\ \A r \in 1..ious.nr : \A c \in 1..ious.nc :
                (\A b \in 1..(a - 1) : matches[b][1] # r /\ matches[b][2] # c)
                  => NpLe(StartIous.v[r][c], gt_ious[a])
    /\ \A r \in 1..ious.nr : \A c \in 1..ious.nc :
         ious.v[r][c] = Fin(-1)
           <=> \E b \in 1..(j - 1) : matches[b][1] = r \/ matches[b][2] = c

\* two matches made in one image, the second one constrained by the first:
\* the row matched second held a larger IoU in the consumed column
C10_Witness ==
  /\ pc = "rc_iter"
  /\ j = 3
  /\ ious.nc >= 2
  /\ FLt(Fin(0), gt_ious[2])
  /\ FLt(gt_ious[2], StartIous.v[matches[2][1]][matches[1][2]])

\* C2: every per-class ap and the mean AP returned by eval_map are numbers
\* in [0, 1], also when classes have no ground truth or no detections.
C2_ApInUnit ==
  pc = "em_done" =>
    /\ InUnit(mean_ap)
    /\ \A r \in 1..Len(eval_results) : InUnit(eval_results[r].ap)

\* the IoUs of detection row d with the boxes g, and what C5 states of
\* the detection: true positive exactly if this holds
StatedIoUs(d, g) == [x \in 1..Len(g) |-> PairIoU(BoxOf(d), g[x])]
StatedTruePositive(d, g, cov, thr) ==
  /\ Len(g) > 0
  /\ FGt(StatedIoUs(d, g)[ArgMax(StatedIoUs(d, g))], thr)
  /\ cov[ArgMax(StatedIoUs(d, g))] = 0

C5_State ==
  pc = "em_det" =>
    /\ \A a \in 1..Len(dets) :
         /\ a < j => tp[a] + fp[a] = 1
         /\ a >= j => tp[a] = 0 /\ fp[a] = 0
         /\ a < Len(dets) => dets[a][5] >= dets[a + 1][5]
    /\ SumSeq(tp) <= TotalLen(cls_gts)
    /\ SumSeq(tp) = SumSeq([m \in 1..Len(covered) |-> SumSeq(covered[m])])

C5_Step ==
  (pc = "em_det" /\ pc' = "em_det" /\ j' = j + 1) =>
    LET m == img_idxs[j]
        g == cls_gts[m]
    IN  /\ IF StatedTruePositive(dets[j], g, covered[m], iou_thr)
           THEN /\ tp'[j] = 1 /\ fp'[j] = 0
                /\ covered' = [covered EXCEPT
                                 ![m][ArgMax(StatedIoUs(dets[j], g))] = 1]
           ELSE /\ tp'[j] = 0 /\ fp'[j] = 1
                /\ covered' = covered
        /\ \A a \in 1..Len(dets) : a # j => tp'[a] = tp[a] /\ fp'[a] = fp[a]

\* C5: in the walk over a class's detections in descending score order a
\* detection is marked true positive exactly if its image has a ground-truth
\* box of the class, its maximum IoU is strictly above iou_thr and the box at
\* the argmax is not consumed, and then exactly that box is consumed; else it
\* is marked false positive and no flag changes.  Each detection is one of
\* TP/FP and the true positives never outnumber the ground-truth boxes.
C5_WalkMarks == []C5_State /\ [][C5_Step]_vars

\* a detection that is a false positive only because the box it matches best
\* was consumed by an earlier true positive of the same image
C5_Witness ==
  /\ pc = "em_det"
  /\ j = 3
  /\ tp[1] = 1 /\ fp[2] = 1
  /\ img_idxs[1] = img_idxs[2]
  /\ LET row == StatedIoUs(dets[2], cls_gts[img_idxs[2]])
     IN  /\ FGt(row[ArgMax(row)], iou_thr)
         /\ covered[img_idxs[2]][ArgMax(row)] = 1
         /\ \E x \in 1..Len(row) : covered[img_idxs[2]][x] = 0

====
